---- MODULE Spec2Model ----
(***************************************************************************)
(* Model of custom_components/powertag_gateway/schneider_modbus.py: the    *)
(* SchneiderModbus register codec, its enumerations, the synthesis-table   *)
(* discovery done by the constructor, and the facade accessors.            *)
(*                                                                         *)
(* Python values are tagged records so that None, ints, strings and        *)
(* objects can be compared: PyNone, PyInt(n), PyStr(code points), ...      *)
(* Integers wider than 31 bits (the 32- and 64-bit register values) are    *)
(* held as their base-65536 digits, most significant first.                *)
(***************************************************************************)
EXTENDS Integers, Sequences, FiniteSets, TLC

POWERTAG_LINK_SLAVE_ID == 255
SYNTHESIS_TABLE_SLAVE_ID_START == 247

VARIABLES
    pc,                 \* "constructing" | "ready" | "failed"
    slave_id,           \* loop variable of find_synthentic_table_slave_id
    synthetic_slave_id, \* self.synthetic_slave_id (0 while not assigned)
    responders,         \* environment: units that answer the probe read
    op,                 \* the operation called last
    arg,                \* its unit / index argument
    request,            \* last request handed to self.client
    nreq,               \* requests handed to self.client by the operation called last
    response,           \* what self.client gave back for that request
    result              \* how the operation called last ended

vars == <<pc, slave_id, synthetic_slave_id, responders, op, arg,
          request, nreq, response, result>>

----------------------------------------------------------------------------
(* Python values and call outcomes *)

\* Every record of the model lists its fields in one fixed order.
PyNone == [t |-> "NoneType"]
PyInt(n) == [t |-> "int", v |-> n]
PyBool(b) == [t |-> "bool", v |-> b]
PyStr(s) == [t |-> "str", v |-> s]

\* how a call ends: it returns a value or raises an exception
Return(x) == [kind |-> "return", exc |-> "", msg |-> "", value |-> x]
Raise(e) == [kind |-> "raise", exc |-> e, msg |-> "", value |-> PyNone]

RaiseMsg(e, m) == [kind |-> "raise", exc |-> e, msg |-> m, value |-> PyNone]
Pending == [kind |-> "pending", exc |-> "", msg |-> "", value |-> PyNone]

NoRequest == [kind |-> "none", address |-> 0, count |-> 0, unit |-> 0, registers |-> << >>]
NoResponse == [kind |-> "none", registers |-> << >>]

----------------------------------------------------------------------------
(* Bit helpers on non-negative integers *)

RECURSIVE Pow2(_)
Pow2(n) == IF n = 0 THEN 1 ELSE 2 * Pow2(n - 1)

\* x >> n
Shr(x, n) == x \div Pow2(n)

\* x & (2^k - 1) << n, reported as TRUE when bit n of x is set
Bit(x, n) == (x \div Pow2(n)) % 2 = 1

\* x & (2^n - 1)
LowBits(x, n) == x % Pow2(n)

----------------------------------------------------------------------------
(* BinaryPayloadDecoder.fromRegisters(byteorder=Big, wordorder=Big):       *)
(* every register becomes two bytes, high byte first, registers in order.  *)

decoder(registers) ==
    [i \in 1..(2 * Len(registers)) |->
        IF i % 2 = 1 THEN registers[(i + 1) \div 2] \div 256
                     ELSE registers[i \div 2] % 256]

\* decode_16bit_uint at byte offset p (0-based pointer)
decode_16bit_uint(payload, p) == payload[p + 1] * 256 + payload[p + 2]

\* a decoder that takes the low word first
decode_32bit_uint_LowWordFirst(payload) ==
    << decode_16bit_uint(payload, 2), decode_16bit_uint(payload, 0) >>

\* decode_32bit_uint: four bytes big-endian, as base-65536 digits
decode_32bit_uint(payload) ==
    << decode_16bit_uint(payload, 0), decode_16bit_uint(payload, 2) >>

\* decode_64bit_uint: eight bytes big-endian, as base-65536 digits
decode_64bit_uint(payload) ==
    << decode_16bit_uint(payload, 0), decode_16bit_uint(payload, 2),
       decode_16bit_uint(payload, 4), decode_16bit_uint(payload, 6) >>

\* decode_32bit_float: IEEE-754 binary32 fields of four big-endian bytes
decode_32bit_float(payload) ==
    LET hi == decode_16bit_uint(payload, 0)
        lo == decode_16bit_uint(payload, 2)
    IN  [t |-> "float",
         v |-> [sign |-> hi \div 32768,
                exponent |-> (hi \div 128) % 256,
                fraction |-> << hi % 128, lo >>]]

\* math.isnan
isnan(f) == f.v.exponent = 255 /\ f.v.fraction # << 0, 0 >>

\* decode_string(size): the first size bytes of the payload
decode_string(payload, size) ==
    SubSeq(payload, 1, IF size < Len(payload) THEN size ELSE Len(payload))

----------------------------------------------------------------------------
(* bytes.decode(): strict UTF-8.  Returns the code points, or raises       *)
(* UnicodeDecodeError.                                                     *)

IsCont(b) == b >= 128 /\ b <= 191

\* number of continuation bytes a lead byte announces, -1 for an invalid lead
Utf8Need(b) ==
    IF b < 128 THEN 0
    ELSE IF b >= 194 /\ b <= 223 THEN 1
    ELSE IF b >= 224 /\ b <= 239 THEN 2
    ELSE IF b >= 240 /\ b <= 244 THEN 3
    ELSE -1

\* the range the first continuation byte must lie in
Utf8SecondOk(lead, b) ==
    IF lead = 224 THEN b >= 160 /\ b <= 191
    ELSE IF lead = 237 THEN b >= 128 /\ b <= 159
    ELSE IF lead = 240 THEN b >= 144 /\ b <= 191
    ELSE IF lead = 244 THEN b >= 128 /\ b <= 143
    ELSE IsCont(b)

RECURSIVE Utf8From(_, _, _)
Utf8From(bs, i, acc) ==
    IF i > Len(bs) THEN Return(PyStr(acc))
    ELSE LET b == bs[i]
             n == Utf8Need(b)
         IN  IF n = -1 \/ i + n > Len(bs) THEN Raise("UnicodeDecodeError")
             ELSE IF n = 0 THEN Utf8From(bs, i + 1, Append(acc, b))
             ELSE IF ~Utf8SecondOk(b, bs[i + 1]) THEN Raise("UnicodeDecodeError")
             ELSE IF \E k \in 2..n : ~IsCont(bs[i + k]) THEN Raise("UnicodeDecodeError")
             ELSE LET lead == IF n = 1 THEN b % 32 ELSE IF n = 2 THEN b % 16 ELSE b % 8
                      c1 == bs[i + 1] % 64
                      c2 == bs[i + 2] % 64
                      c3 == bs[i + 3] % 64
                      cp == IF n = 1 THEN lead * 64 + c1
                            ELSE IF n = 2 THEN (lead * 64 + c1) * 64 + c2
                            ELSE ((lead * 64 + c1) * 64 + c2) * 64 + c3
                  IN  Utf8From(bs, i + n + 1, Append(acc, cp))

bytes_decode(bs) == Utf8From(bs, 1, << >>)

\* "c == '\x00'" for c taken from a bytes object: c is an int, and an int
\* never equals a str
IntEqualsNulChar(c) == FALSE

\* bytes(filter(lambda b: b != 0, list(ascii_bytes)))
RECURSIVE FilterNonZero(_)
FilterNonZero(bs) ==
    IF bs = << >> THEN << >>
    ELSE IF Head(bs) # 0 THEN << Head(bs) >> \o FilterNonZero(Tail(bs))
    ELSE FilterNonZero(Tail(bs))

\* the decoding half of __read_string (lines 477-483), on the registers read
string_from_registers(registers, string_length) ==
    LET ascii_bytes == decode_string(decoder(registers), string_length)
    IN  IF \A i \in 1..Len(ascii_bytes) : IntEqualsNulChar(ascii_bytes[i])
        THEN Return(PyNone)
        ELSE bytes_decode(FilterNonZero(ascii_bytes))

----------------------------------------------------------------------------
(* datetime.datetime(year, month, day, hour, minute, second, microsecond) *)

IsLeap(year) == year % 4 = 0 /\ (year % 100 # 0 \/ year % 400 = 0)

DaysInMonth(year, month) ==
    IF month = 2 THEN (IF IsLeap(year) THEN 29 ELSE 28)
    ELSE IF month \in {4, 6, 9, 11} THEN 30 ELSE 31

\* a constructor that accepts hour 24
datetime_Hour24(year, month, day, hour, minute, second, microsecond) ==
    IF /\ month >= 1 /\ month <= 12
       /\ day >= 1 /\ day <= DaysInMonth(year, month)
       /\ hour >= 0 /\ hour <= 24
       /\ minute >= 0 /\ minute <= 59
       /\ second >= 0 /\ second <= 59
    THEN Return([t |-> "datetime",
                 v |-> [year |-> year, month |-> month, day |-> day,
                        hour |-> hour, minute |-> minute, second |-> second,
                        microsecond |-> microsecond]])
    ELSE Raise("ValueError")

datetime(year, month, day, hour, minute, second, microsecond) ==
    IF /\ year >= 1 /\ year <= 9999
       /\ month >= 1 /\ month <= 12
       /\ day >= 1 /\ day <= DaysInMonth(year, month)
       /\ hour >= 0 /\ hour <= 23
       /\ minute >= 0 /\ minute <= 59
       /\ second >= 0 /\ second <= 59
       /\ microsecond >= 0 /\ microsecond <= 999999
    THEN Return([t |-> "datetime",
                 v |-> [year |-> year, month |-> month, day |-> day,
                        hour |-> hour, minute |-> minute, second |-> second,
                        microsecond |-> microsecond]])
    ELSE Raise("ValueError")

\* the decoding half of __read_date_time (lines 517-537), on the registers read
date_time_from_registers(registers) ==
    LET d == decoder(registers)
        year_raw == decode_16bit_uint(d, 0)
        year == LowBits(year_raw, 7) + 2000
        day_month == decode_16bit_uint(d, 2)
        day == LowBits(day_month, 5)
        month == LowBits(Shr(day_month, 8), 4)
        minute_hour == decode_16bit_uint(d, 4)
        minute == LowBits(minute_hour, 6)
        hour == LowBits(Shr(minute_hour, 8), 5)
        second_millisecond == decode_16bit_uint(d, 6)
        second == second_millisecond \div 1000
        millisecond == second_millisecond - second * 1000
    IN  IF /\ year_raw = 65535 /\ day_month = 65535
           /\ minute_hour = 65535 /\ second_millisecond = 65535
        THEN Return(PyNone)
        ELSE datetime(year, month, day, hour, minute, second, millisecond)

----------------------------------------------------------------------------
(* Enumerations: members in definition order, each with its value.         *)

PhaseMembers ==
    << [value |-> PyInt(0), name |-> "A"],
       [value |-> PyInt(2), name |-> "B"],
       [value |-> PyInt(4), name |-> "C"] >>

LineVoltageMembers ==
    << [value |-> PyInt(0), name |-> "A_B"],
       [value |-> PyInt(2), name |-> "B_C"],
       [value |-> PyInt(4), name |-> "C_A"],
       [value |-> PyInt(8), name |-> "A_N"],
       [value |-> PyInt(10), name |-> "B_N"],
       [value |-> PyInt(12), name |-> "C_N"] >>

PanelserverStatusMembers ==
    << [value |-> PyInt(0), name |-> "Nominal"],
       [value |-> PyInt(1), name |-> "Degraded"],
       [value |-> PyInt(2), name |-> "Outoforder"] >>

DeviceUsageMembers ==
    << [value |-> PyInt(1), name |-> "main_incomer"],
       [value |-> PyInt(2), name |-> "sub_head_of_group"],
       [value |-> PyInt(3), name |-> "heating"],
       [value |-> PyInt(4), name |-> "cooling"],
       [value |-> PyInt(5), name |-> "hvac"],
       [value |-> PyInt(6), name |-> "ventilation"],
       [value |-> PyInt(7), name |-> "lighting"],
       [value |-> PyInt(8), name |-> "office_equipment"],
       [value |-> PyInt(9), name |-> "cooking"],
       [value |-> PyInt(10), name |-> "food_refrigeration"],
       [value |-> PyInt(11), name |-> "elevators"],
       [value |-> PyInt(12), name |-> "computers"],
       [value |-> PyInt(13), name |-> "renewable_energy_production"],
       [value |-> PyInt(14), name |-> "genset"],
       [value |-> PyInt(15), name |-> "compressed_air"],
       [value |-> PyInt(16), name |-> "vapor"],
       [value |-> PyInt(17), name |-> "machine"],
       [value |-> PyInt(18), name |-> "process"],
       [value |-> PyInt(19), name |-> "water"],
       [value |-> PyInt(20), name |-> "other_sockets"],
       [value |-> PyInt(21), name |-> "other"],
       [value |-> PyNone, name |-> "INVALID"] >>

PhaseSequenceMembers ==
    << [value |-> PyInt(1), name |-> "A"],
       [value |-> PyInt(2), name |-> "B"],
       [value |-> PyInt(3), name |-> "C"],
       [value |-> PyInt(4), name |-> "ABC"],
       [value |-> PyInt(5), name |-> "ACB"],
       [value |-> PyInt(6), name |-> "BCA"],
       [value |-> PyInt(7), name |-> "BAC"],
       [value |-> PyInt(8), name |-> "CAB"],
       [value |-> PyInt(9), name |-> "CBA"],
       [value |-> PyNone, name |-> "INVALID"] >>

PositionMembers ==
    << [value |-> PyInt(0), name |-> "not_configured"],
       [value |-> PyInt(1), name |-> "top"],
       [value |-> PyInt(2), name |-> "bottom"],
       [value |-> PyInt(3), name |-> "not_applicable"],
       [value |-> PyNone, name |-> "INVALID"] >>

\* ProductType: the value of a member is (code, label); only the code is used
ProductTypeMembers ==
    << [value |-> PyInt(41), name |-> "A9MEM1520"],
       [value |-> PyInt(42), name |-> "A9MEM1521"],
       [value |-> PyInt(43), name |-> "A9MEM1522"],
       [value |-> PyInt(44), name |-> "A9MEM1540"],
       [value |-> PyInt(45), name |-> "A9MEM1541"],
       [value |-> PyInt(46), name |-> "A9MEM1542"],
       [value |-> PyInt(81), name |-> "A9MEM1560"],
       [value |-> PyInt(82), name |-> "A9MEM1561"],
       [value |-> PyInt(83), name |-> "A9MEM1562"],
       [value |-> PyInt(84), name |-> "A9MEM1563"],
       [value |-> PyInt(85), name |-> "A9MEM1570"],
       [value |-> PyInt(86), name |-> "A9MEM1571"],
       [value |-> PyInt(87), name |-> "A9MEM1572"],
       [value |-> PyInt(92), name |-> "LV434020"],
       [value |-> PyInt(93), name |-> "LV434021"],
       [value |-> PyInt(94), name |-> "LV434022"],
       [value |-> PyInt(95), name |-> "LV434023"],
       [value |-> PyInt(96), name |-> "A9MEM1543"],
       [value |-> PyInt(97), name |-> "A9XMC2D3"],
       [value |-> PyInt(98), name |-> "A9XMC1D3"],
       [value |-> PyInt(101), name |-> "A9MEM1564"],
       [value |-> PyInt(102), name |-> "A9MEM1573"],
       [value |-> PyInt(103), name |-> "A9MEM1574"],
       [value |-> PyInt(104), name |-> "A9MEM1590"],
       [value |-> PyInt(105), name |-> "A9MEM1591"],
       [value |-> PyInt(106), name |-> "A9MEM1592"],
       [value |-> PyInt(107), name |-> "A9MEM1593"],
       [value |-> PyInt(121), name |-> "A9MEM1580"],
       [value |-> PyInt(170), name |-> "A9XMWRD"],
       [value |-> PyInt(171), name |-> "SMT10020"] >>

\* a lookup that falls back to the last member (INVALID) for an unknown value
EnumByValue_Defaulting(cls, members, value) ==
    IF \E i \in 1..Len(members) : members[i].value = value
    THEN Return([t |-> cls,
                 v |-> members[CHOOSE i \in 1..Len(members) : members[i].value = value].name])
    ELSE Return([t |-> cls, v |-> members[Len(members)].name])

\* Enum.__call__(value): the member holding that value, else ValueError
EnumByValue(cls, members, value) ==
    IF \E i \in 1..Len(members) : members[i].value = value
    THEN LET i == CHOOSE i \in 1..Len(members) :
                      /\ members[i].value = value
                      /\ \A j \in 1..(i - 1) : members[j].value # value
         IN  Return([t |-> cls, v |-> members[i].name])
    ELSE Raise("ValueError")

PanelserverStatus(value) == EnumByValue("PanelserverStatus", PanelserverStatusMembers, value)
DeviceUsage(value) == EnumByValue("DeviceUsage", DeviceUsageMembers, value)
PhaseSequence(value) == EnumByValue("PhaseSequence", PhaseSequenceMembers, value)
Position(value) == EnumByValue("Position", PositionMembers, value)

\* [p for p in ProductType if p.value[0] == code], then the first or None
ProductTypeByCode(code) ==
    LET product_type == { i \in 1..Len(ProductTypeMembers) : ProductTypeMembers[i].value = code }
    IN  IF product_type # {}
        THEN Return([t |-> "ProductType",
                     v |-> ProductTypeMembers[CHOOSE i \in product_type :
                                                \A j \in product_type : i <= j].name])
        ELSE Return(PyNone)

----------------------------------------------------------------------------
(* AlarmStatus.__init__(bitmask).  "bitmask & 0b1111_1111" raises          *)
(* TypeError when bitmask is None.                                         *)

AlarmStatus(bitmask) ==
    IF bitmask.t # "int" THEN Raise("TypeError")
    ELSE LET lower_mask == LowBits(bitmask.v, 8)
         IN  Return([t |-> "AlarmStatus",
                     v |-> [has_alarm |-> lower_mask # 0,
                            alarm_voltage_loss |-> Bit(lower_mask, 0),
                            alarm_current_overload |-> Bit(lower_mask, 1),
                            alarm_overload_45_percent |-> Bit(lower_mask, 3),
                            alarm_load_current_loss |-> Bit(lower_mask, 4),
                            alarm_overvoltage |-> Bit(lower_mask, 5),
                            alarm_undervoltage |-> Bit(lower_mask, 6),
                            alarm_heattag_alarm |-> Bit(lower_mask, 8),
                            alarm_heattag_maintenance |-> Bit(lower_mask, 10),
                            alarm_heattag_replacement |-> Bit(lower_mask, 11)]])

----------------------------------------------------------------------------
(* The transport and the private helpers.  A helper applied to what the    *)
(* client gives back (resp) yields a call record: the requests handed to   *)
(* the client, the client's answer and how the helper ended.               *)

\* assert (1 <= unit <= 247) or (unit == 255)
UnitOk(unit) == (1 <= unit /\ unit <= 247) \/ unit = POWERTAG_LINK_SLAVE_ID

AssertionFailed == [response |-> NoResponse, result |-> Raise("AssertionError"),
                    requests |-> << >>]

\* __read: one read_holding_registers.  An exception the client raises
\* propagates as it is; an ExceptionResponse becomes ConnectionError; any other
\* object is asked for .registers, which an error object does not have.
read(address, count, unit, resp) ==
    [response |-> resp,
     result |-> IF resp.kind = "registers" THEN Return(resp.registers)
                ELSE IF resp.kind = "ModbusException" THEN Raise("ModbusException")
                ELSE IF resp.kind = "ModbusIOException" THEN Raise("AttributeError")
                ELSE Raise("ConnectionError"),
     requests |-> << [kind |-> "read", address |-> address, count |-> count,
                      unit |-> unit, registers |-> << >>] >>]

\* __write: one write_registers; the response is printed, never inspected, so
\* only an exception the client raises ends the call abnormally
write(address, registers, unit, resp) ==
    [response |-> resp,
     result |-> IF resp.kind = "ConnectionError" THEN Raise("ConnectionError")
                ELSE IF resp.kind = "ModbusException" THEN Raise("ModbusException")
                ELSE Return(PyNone),
     requests |-> << [kind |-> "write", address |-> address, count |-> Len(registers),
                      unit |-> unit, registers |-> registers] >>]

read_string(address, count, unit, string_length, resp) ==
    LET call == read(address, count, unit, resp)
    IN  IF call.result.kind = "raise" THEN call
        ELSE [call EXCEPT !.result = string_from_registers(call.result.value, string_length)]

\* BinaryPayloadBuilder.add_string(s) + to_registers(): bytes pairwise, high
\* byte first; build() pads a payload of odd length with one NUL byte
RECURSIVE BytesToRegisters(_)
BytesToRegisters(bs) ==
    IF Len(bs) = 0 THEN << >>
    ELSE IF Len(bs) = 1 THEN << bs[1] * 256 >>
    ELSE << bs[1] * 256 + bs[2] >> \o BytesToRegisters(Tail(Tail(bs)))

\* string.ljust(20, '\x00')
Ljust20(string) ==
    IF Len(string) >= 20 THEN string
    ELSE string \o [i \in 1..(20 - Len(string)) |-> 0]

\* a code point str.encode() cannot encode: a lone surrogate
IsSurrogate(cp) == cp >= 55296 /\ cp <= 57343

\* the UTF-8 bytes of one code point
Utf8Encode(cp) ==
    IF cp < 128 THEN << cp >>
    ELSE IF cp < 2048 THEN << 192 + (cp \div 64), 128 + (cp % 64) >>
    ELSE IF cp < 65536
    THEN << 224 + (cp \div 4096), 128 + ((cp \div 64) % 64), 128 + (cp % 64) >>
    ELSE << 240 + (cp \div 262144), 128 + ((cp \div 4096) % 64),
            128 + ((cp \div 64) % 64), 128 + (cp % 64) >>

\* str.encode(), as add_string applies it to the padded string: the UTF-8
\* bytes of the code points in order
RECURSIVE str_encode(_)
str_encode(string) ==
    IF string = << >> THEN << >>
    ELSE Utf8Encode(Head(string)) \o str_encode(Tail(string))

\* __write_string: the string is a sequence of code points; it is padded to 20
\* characters, encoded, packed into registers and written.  A string that
\* cannot be encoded raises before any request.
write_string(address, unit, string, resp) ==
    LET padded == Ljust20(string)
    IN  IF \E i \in 1..Len(padded) : IsSurrogate(padded[i])
        THEN [response |-> NoResponse, result |-> Raise("UnicodeEncodeError"),
              requests |-> << >>]
        ELSE write(address, BytesToRegisters(str_encode(padded)), unit, resp)

float_or_none(registers) ==
    LET res == decode_32bit_float(decoder(registers))
    IN  Return(IF ~isnan(res) THEN res ELSE PyNone)

read_float_32(address, unit, resp) ==
    IF ~UnitOk(unit) THEN AssertionFailed
    ELSE (LET call == read(address, 2, unit, resp)
         IN  IF call.result.kind = "raise" THEN call
             ELSE [call EXCEPT !.result = float_or_none(call.result.value)])

int_16_or_none(registers) ==
    LET res == decode_16bit_uint(decoder(registers), 0)
    IN  Return(IF res # 65535 THEN PyInt(res) ELSE PyNone)

read_int_16(address, unit, resp) ==
    IF ~UnitOk(unit) THEN AssertionFailed
    ELSE (LET call == read(address, 1, unit, resp)
         IN  IF call.result.kind = "raise" THEN call
             ELSE [call EXCEPT !.result = int_16_or_none(call.result.value)])

\* BinaryPayloadBuilder.add_16bit_uint(value) + to_registers()
write_int_16(address, unit, value, resp) ==
    IF ~UnitOk(unit) THEN AssertionFailed
    ELSE write(address, << value >>, unit, resp)

\* an int above 31 bits, as its base-65536 digits
PyBigInt(digits) == [t |-> "bigint", v |-> digits]

int_32_or_none(registers) ==
    LET res == decode_32bit_uint(decoder(registers))
    IN  Return(IF res # << 32768, 0 >> THEN PyBigInt(res) ELSE PyNone)

read_int_32(address, unit, resp) ==
    IF ~UnitOk(unit) THEN AssertionFailed
    ELSE (LET call == read(address, 2, unit, resp)
         IN  IF call.result.kind = "raise" THEN call
             ELSE [call EXCEPT !.result = int_32_or_none(call.result.value)])

int_64_or_none(registers) ==
    LET res == decode_64bit_uint(decoder(registers))
    IN  Return(IF res # << 32768, 0, 0, 0 >> THEN PyBigInt(res) ELSE PyNone)

read_int_64(address, unit, resp) ==
    IF ~UnitOk(unit) THEN AssertionFailed
    ELSE (LET call == read(address, 4, unit, resp)
         IN  IF call.result.kind = "raise" THEN call
             ELSE [call EXCEPT !.result = int_64_or_none(call.result.value)])

read_date_time(address, unit, resp) ==
    (LET call == read(address, 4, unit, resp)
         IN  IF call.result.kind = "raise" THEN call
             ELSE [call EXCEPT !.result = date_time_from_registers(call.result.value)])

----------------------------------------------------------------------------
(* Facade accessors: the call each one makes, given the client's answer.   *)

hardware_version(resp) == read_string(80, 6, POWERTAG_LINK_SLAVE_ID, 11, resp)

status(resp) == (LET call == read_int_16(158, POWERTAG_LINK_SLAVE_ID, resp)
         IN  IF call.result.kind = "raise" THEN call
             ELSE [call EXCEPT !.result = PanelserverStatus(call.result.value)])

date_time(resp) == read_date_time(115, POWERTAG_LINK_SLAVE_ID, resp)

tag_current(power_tag_index, phase, resp) ==
    read_float_32(2999 + phase, power_tag_index, resp)

tag_energy_active_total(power_tag_index, resp) == read_int_64(3203, power_tag_index, resp)

\* (value & 0b1) != 0, TypeError when value is None
LowBitSet(value) ==
    IF value.t # "int" THEN Raise("TypeError") ELSE Return(PyBool(Bit(value.v, 0)))

tag_is_alarm_valid(power_tag_index, resp) ==
    (LET call == read_int_16(3297, power_tag_index, resp)
         IN  IF call.result.kind = "raise" THEN call
             ELSE [call EXCEPT !.result = LowBitSet(call.result.value)])

tag_get_alarm(power_tag_index, resp) ==
    (LET call == read_int_16(3299, power_tag_index, resp)
         IN  IF call.result.kind = "raise" THEN call
             ELSE [call EXCEPT !.result = AlarmStatus(call.result.value)])

tag_load_operating_time(power_tag_index, resp) == read_int_32(3307, power_tag_index, resp)

tag_load_operating_time_start(power_tag_index, resp) ==
    read_date_time(3311, power_tag_index, resp)

tag_circuit(power_tag_index, resp) == read_string(31010, 3, power_tag_index, 5, resp)

tag_usage(power_tag_index, resp) ==
    (LET call == read_int_16(31013, power_tag_index, resp)
         IN  IF call.result.kind = "raise" THEN call
             ELSE [call EXCEPT !.result = DeviceUsage(call.result.value)])

tag_phase_sequence(power_tag_index, resp) ==
    (LET call == read_int_16(31014, power_tag_index, resp)
         IN  IF call.result.kind = "raise" THEN call
             ELSE [call EXCEPT !.result = PhaseSequence(call.result.value)])

tag_position(power_tag_index, resp) ==
    (LET call == read_int_16(31015, power_tag_index, resp)
         IN  IF call.result.kind = "raise" THEN call
             ELSE [call EXCEPT !.result = Position(call.result.value)])

tag_rated_current(power_tag_index, resp) == read_int_16(31017, power_tag_index, resp)

tag_reset_peak_demands(power_tag_index, resp) ==
    write_int_16(31022, power_tag_index, 1, resp)

tag_product_type(power_tag_index, resp) ==
    (LET call == read_int_16(31024, power_tag_index, resp)
         IN  IF call.result.kind = "raise" THEN call
             ELSE [call EXCEPT !.result = ProductTypeByCode(call.result.value)])

product_id(self_synthetic_slave_id, resp) == read_int_16(1, self_synthetic_slave_id, resp)

modbus_address_of_node(self_synthetic_slave_id, node_index, resp) ==
    read_int_16(300 + node_index - 1, self_synthetic_slave_id, resp)

----------------------------------------------------------------------------
(* Inputs: what callers pass and what the client can give back.            *)

\* longest run of leading non-padding words in a string register block
MaxTextWords == 2

\* units at which a synthesis table may answer the probe read
Candidates == {1, 2, 42, 247}

\* power_tag_index arguments, inside and outside [1,247]
TagIndexes == {0, 1, 248}

\* Phase.value
PhaseValues == { PhaseMembers[i].value.v : i \in 1..Len(PhaseMembers) }

NodeIndexes == {1, 100}

Words16 == {0, 1, 2, 3, 4, 9, 10, 21, 22, 32, 64, 128, 256, 1024, 2048, 65535}
Regs16 == { << w >> : w \in Words16 }
Regs32 == { << a, b >> : a \in {0, 1, 32768, 65535}, b \in {0, 1, 32768, 65535} }
Words64 == {0, 1, 32768}
Regs64 == { << a, b, c, d >> : a \in Words64, b \in Words64, c \in Words64, d \in Words64 }
\* 0.0, 1.0, +Inf, NaN, -Inf in the high word; the low word turns an Inf into a NaN
RegsFloat == { << h, l >> : h \in {0, 16256, 32640, 32704, 65408}, l \in {0, 1} }
\* year_raw, day_month (month-day 1-5, 13-5, 2-30, 0-5, 1-0, all ones),
\* minute_hour (10:30, 24:30, all ones), second_millisecond (3.700, 60.000,
\* all ones)
RegsDateTime ==
    { << y, dm, mh, sm >> : y \in {24, 65535}, dm \in {261, 3333, 542, 5, 256, 65535},
                            mh \in {2590, 6174, 65535}, sm \in {3700, 60000, 65535} }
\* "AB", NUL "C", NUL NUL, 0xFF NUL (never valid UTF-8), 0xC3 0xA9 (U+00E9)
StrWords == {16706, 67, 0, 65280, 50089}

Min(a, b) == IF a < b THEN a ELSE b

\* count registers: up to MaxTextWords leading words of text, NUL padding after
RegsString(count) ==
    { [i \in 1..count |-> IF i <= Len(text) THEN text[i] ELSE 0] :
        text \in [1..Min(MaxTextWords, count) -> StrWords] }

OkResponses(regs) == { [kind |-> "registers", registers |-> r] : r \in regs }
\* the device (or the gateway on its behalf) answers with a Modbus exception
ExceptionResponse == [kind |-> "ExceptionResponse", registers |-> << >>]

\* the socket fails under the client and the builtin ConnectionError (a reset
\* or broken connection) comes out of the call
ClientRaises == [kind |-> "ConnectionError", registers |-> << >>]

\* no answer within the client's time-out, the library handing back its error
\* object: not an ExceptionResponse, and without .registers
ClientReturnsError == [kind |-> "ModbusIOException", registers |-> << >>]

\* no answer within the client's time-out, or no connection, the library
\* raising its own exception class, which is not a builtin ConnectionError
ClientRaisesLibrary == [kind |-> "ModbusException", registers |-> << >>]

\* what a request that gets no register answer can come back as; which of
\* them a silent unit produces is the library's choice, not the source's
FailedResponses ==
    {ExceptionResponse, ClientRaises, ClientReturnsError, ClientRaisesLibrary}

ReadResponses(regs) == OkResponses(regs) \cup FailedResponses
WriteResponses == {[kind |-> "written", registers |-> << >>]} \cup FailedResponses

----------------------------------------------------------------------------
(* Construction: __init__ runs find_synthentic_table_slave_id, one probe   *)
(* read per step.                                                          *)

Init ==
    /\ pc = "constructing"
    /\ slave_id = SYNTHESIS_TABLE_SLAVE_ID_START
    /\ synthetic_slave_id = 0
    /\ responders \in SUBSET Candidates
    /\ op = "__init__"
    /\ arg = << >>
    /\ request = NoRequest
    /\ nreq = 0
    /\ response = NoResponse
    /\ result = Pending

\* for slave_id in range(SYNTHESIS_TABLE_SLAVE_ID_START, 1, -1)
InRange(s) == s > 1

\* what the client gives back for the probe of a unit
ProbeResponses(unit) ==
    IF unit \in responders THEN OkResponses({ << 0 >>, << 65535 >> })
    ELSE FailedResponses

\* except ConnectionError: continue
Caught(res) == res.kind = "raise" /\ res.exc = "ConnectionError"

Probe ==
    /\ pc = "constructing"
    /\ InRange(slave_id)
    /\ \E resp \in ProbeResponses(slave_id) :
         LET call == read_int_16(1, slave_id, resp)
         IN  /\ nreq' = nreq + Len(call.requests)
             /\ request' = IF call.requests = << >> THEN request ELSE call.requests[1]
             /\ response' = call.response
             /\ IF call.result.kind = "return"
                THEN /\ synthetic_slave_id' = slave_id
                     /\ pc' = "ready"
                     /\ result' = Return(PyNone)
                     /\ UNCHANGED slave_id
                ELSE IF Caught(call.result)
                THEN /\ slave_id' = slave_id - 1
                     /\ UNCHANGED <<pc, synthetic_slave_id, result>>
                ELSE /\ pc' = "failed"
                     /\ result' = call.result
                     /\ UNCHANGED <<slave_id, synthetic_slave_id>>
    /\ UNCHANGED <<responders, op, arg>>

\* raise ConnectionError("Could not find synthetic slave ID")
NotFound ==
    /\ pc = "constructing"
    /\ ~InRange(slave_id)
    /\ pc' = "failed"
    /\ result' = RaiseMsg("ConnectionError", "Could not find synthetic slave ID")
    /\ UNCHANGED <<slave_id, synthetic_slave_id, responders, op, arg, request, nreq, response>>

----------------------------------------------------------------------------
(* Facade calls on the constructed object.                                 *)

Do(name, a, call) ==
    /\ pc = "ready"
    /\ op' = name
    /\ arg' = a
    /\ nreq' = Len(call.requests)
    /\ request' = IF call.requests = << >> THEN NoRequest
                  ELSE call.requests[Len(call.requests)]
    /\ response' = call.response
    /\ result' = call.result
    /\ UNCHANGED <<pc, slave_id, synthetic_slave_id, responders>>

HardwareVersion ==
    \E resp \in ReadResponses(RegsString(6)) :
        Do("hardware_version", << >>, hardware_version(resp))

Status ==
    \E resp \in ReadResponses(Regs16) : Do("status", << >>, status(resp))

DateTime ==
    \E resp \in ReadResponses(RegsDateTime) : Do("date_time", << >>, date_time(resp))

TagCurrent ==
    \E i \in TagIndexes, phase \in PhaseValues, resp \in ReadResponses(RegsFloat) :
        Do("tag_current", << i, phase >>, tag_current(i, phase, resp))

TagEnergyActiveTotal ==
    \E i \in TagIndexes, resp \in ReadResponses(Regs64) :
        Do("tag_energy_active_total", << i >>, tag_energy_active_total(i, resp))

TagIsAlarmValid ==
    \E i \in TagIndexes, resp \in ReadResponses(Regs16) :
        Do("tag_is_alarm_valid", << i >>, tag_is_alarm_valid(i, resp))

TagGetAlarm ==
    \E i \in TagIndexes, resp \in ReadResponses(Regs16) :
        Do("tag_get_alarm", << i >>, tag_get_alarm(i, resp))

TagLoadOperatingTime ==
    \E i \in TagIndexes, resp \in ReadResponses(Regs32) :
        Do("tag_load_operating_time", << i >>, tag_load_operating_time(i, resp))

TagLoadOperatingTimeStart ==
    \E i \in TagIndexes, resp \in ReadResponses(RegsDateTime) :
        Do("tag_load_operating_time_start", << i >>, tag_load_operating_time_start(i, resp))

TagCircuit ==
    \E i \in TagIndexes, resp \in ReadResponses(RegsString(3)) :
        Do("tag_circuit", << i >>, tag_circuit(i, resp))

TagUsage ==
    \E i \in TagIndexes, resp \in ReadResponses(Regs16) :
        Do("tag_usage", << i >>, tag_usage(i, resp))

TagPhaseSequence ==
    \E i \in TagIndexes, resp \in ReadResponses(Regs16) :
        Do("tag_phase_sequence", << i >>, tag_phase_sequence(i, resp))

TagPosition ==
    \E i \in TagIndexes, resp \in ReadResponses(Regs16) :
        Do("tag_position", << i >>, tag_position(i, resp))

TagRatedCurrent ==
    \E i \in TagIndexes, resp \in ReadResponses(Regs16) :
        Do("tag_rated_current", << i >>, tag_rated_current(i, resp))

TagResetPeakDemands ==
    \E i \in TagIndexes, resp \in WriteResponses :
        Do("tag_reset_peak_demands", << i >>, tag_reset_peak_demands(i, resp))

TagProductType ==
    \E i \in TagIndexes, resp \in ReadResponses(Regs16) :
        Do("tag_product_type", << i >>, tag_product_type(i, resp))

ProductId ==
    \E resp \in ReadResponses(Regs16) :
        Do("product_id", << >>, product_id(synthetic_slave_id, resp))

ModbusAddressOfNode ==
    \E n \in NodeIndexes, resp \in ReadResponses(Regs16) :
        Do("modbus_address_of_node", << n >>,
           modbus_address_of_node(synthetic_slave_id, n, resp))

Next ==
    \/ Probe
    \/ NotFound
    \/ HardwareVersion
    \/ Status
    \/ DateTime
    \/ TagCurrent
    \/ TagEnergyActiveTotal
    \/ TagIsAlarmValid
    \/ TagGetAlarm
    \/ TagLoadOperatingTime
    \/ TagLoadOperatingTimeStart
    \/ TagCircuit
    \/ TagUsage
    \/ TagPhaseSequence
    \/ TagPosition
    \/ TagRatedCurrent
    \/ TagResetPeakDemands
    \/ TagProductType
    \/ ProductId
    \/ ModbusAddressOfNode

Spec == Init /\ [][Next]_vars

----------------------------------------------------------------------------
(* Properties *)

Max(S) == CHOOSE x \in S : \A y \in S : y <= x

\* the units the discovery is to consider
Probed == responders \cap (2..247)

AllOnes(r) == \A i \in 1..Len(r) : r[i] = 65535

IsOk == response.kind = "registers"

\* C1: discovery probes 247, 246, ... 2 in this order, stops at the first unit
\* that answers, so it returns the greatest answering unit of [2,247]; it fails
\* only when none of them answers, after all 246 probes, and then with
\* "Could not find synthetic slave ID" and in no other way.
C1_Discovery ==
    /\ pc = "constructing" =>
         /\ nreq = SYNTHESIS_TABLE_SLAVE_ID_START - slave_id
         /\ nreq > 0 => request.unit = slave_id + 1 /\ request.kind = "read"
         /\ \A u \in Probed : u <= slave_id
    /\ pc = "ready" =>
         /\ Probed # {}
         /\ synthetic_slave_id = Max(Probed)
         /\ op = "__init__" =>
              /\ request.unit = synthetic_slave_id
              /\ nreq = SYNTHESIS_TABLE_SLAVE_ID_START - synthetic_slave_id + 1
    /\ pc = "failed" =>
         /\ Probed = {}
         /\ nreq = SYNTHESIS_TABLE_SLAVE_ID_START - 1
         /\ result = RaiseMsg("ConnectionError", "Could not find synthetic slave ID")

\* C2: no request reaches the client with a unit outside [1,247] and # 255.
C2_UnitValidated == request.kind # "none" => UnitOk(request.unit)

StringLengthOf(name) == IF name = "tag_circuit" THEN 5 ELSE 11

\* C3: a string read whose decoded bytes are all NUL returns None; any other
\* (ASCII) content returns the non-NUL bytes in order.
C3_StringDecode ==
    (op \in {"hardware_version", "tag_circuit"} /\ IsOk) =>
        LET bs == decode_string(decoder(response.registers), StringLengthOf(op))
        IN  /\ (\A i \in 1..Len(bs) : bs[i] = 0) => result = Return(PyNone)
            /\ ((\E i \in 1..Len(bs) : bs[i] # 0) /\ (\A i \in 1..Len(bs) : bs[i] < 128))
                 => result = Return(PyStr(FilterNonZero(bs)))

\* C4: a 16/32/64-bit unsigned read is None exactly for the words of the
\* sentinel (0xFFFF; 0x8000 0x0000; 0x8000 0 0 0) and otherwise the value
\* whose base-65536 digits are the words read, most significant first.
C4_UnsignedDecode ==
    IsOk =>
        LET r == response.registers
        IN  /\ op \in {"tag_rated_current", "product_id", "modbus_address_of_node"} =>
                 result = Return(IF r = << 65535 >> THEN PyNone ELSE PyInt(r[1]))
            /\ op = "tag_load_operating_time" =>
                 result = Return(IF r = << 32768, 0 >> THEN PyNone ELSE PyBigInt(r))
            /\ op = "tag_energy_active_total" =>
                 result = Return(IF r = << 32768, 0, 0, 0 >> THEN PyNone ELSE PyBigInt(r))

\* 0x0000_8000 is not the 32-bit sentinel and decodes to itself
C4_Witness ==
    /\ op = "tag_load_operating_time" /\ IsOk
    /\ response.registers = << 0, 32768 >>
    /\ result = Return(PyBigInt(<< 0, 32768 >>))

DateTimeOps == {"date_time", "tag_load_operating_time_start"}

\* the calendar fields of a decoded date-time are in range
InCalendar(d) ==
    LET dt == d.v
    IN
    /\ dt.month \in 1..12
    /\ dt.day \in 1..DaysInMonth(dt.year, dt.month)
    /\ dt.hour \in 0..23 /\ dt.minute \in 0..59 /\ dt.second \in 0..59

\* the packed fields of four words are in calendar range
PackedInCalendar(r) ==
    LET month == (r[2] \div 256) % 16
        day == r[2] % 32
    IN  /\ month \in 1..12
        /\ day \in 1..DaysInMonth(2000 + (r[1] % 128), month)
        /\ (r[3] \div 256) % 32 <= 23
        /\ r[3] % 64 <= 59
        /\ r[4] \div 1000 <= 59

\* C5: a date-time read is None exactly when the four words are all 0xFFFF;
\* any other input gives a date-time with calendar fields in range when the
\* packed fields are in range, and ValueError otherwise.
C5_DateTimeAbsence ==
    (op \in DateTimeOps /\ IsOk) =>
        LET r == response.registers
        IN  /\ (result = Return(PyNone)) <=> AllOnes(r)
            /\ ~AllOnes(r) =>
                 IF PackedInCalendar(r)
                 THEN /\ result.kind = "return"
                      /\ result.value.t = "datetime"
                      /\ InCalendar(result.value)
                 ELSE result = Raise("ValueError")

\* month 13 is refused
C5_Witness ==
    /\ op = "date_time" /\ IsOk
    /\ response.registers = << 24, 3333, 2590, 3700 >>
    /\ result = Raise("ValueError")

\* the millisecond of a datetime object
MillisecondOf(dt) == dt.v.microsecond \div 1000

\* C6: a decoded date-time has year 2000 + low 7 bits of word 0, month bits
\* 8..11 and day bits 0..4 of word 1, hour bits 8..12 and minute bits 0..5 of
\* word 2, second word 3 div 1000 and millisecond word 3 mod 1000.
C6_FieldExtraction ==
    (op \in DateTimeOps /\ IsOk /\ result.kind = "return" /\ ~AllOnes(response.registers)) =>
        LET r == response.registers
            d == result.value
            dt == d.v
        IN  /\ dt.year = 2000 + (r[1] % 128)
            /\ dt.month = (r[2] \div 256) % 16
            /\ dt.day = r[2] % 32
            /\ dt.hour = (r[3] \div 256) % 32
            /\ dt.minute = r[3] % 64
            /\ dt.second = r[4] \div 1000
            /\ MillisecondOf(d) = r[4] % 1000
            /\ r = << 24, 261, 2590, 3700 >> =>
                 /\ dt.year = 2024 /\ dt.month = 1 /\ dt.day = 5 /\ dt.hour = 10
                 /\ dt.minute = 30 /\ dt.second = 3 /\ MillisecondOf(d) = 700

AnyNamedFlag(a) ==
    \/ a.alarm_voltage_loss \/ a.alarm_current_overload \/ a.alarm_overload_45_percent
    \/ a.alarm_load_current_loss \/ a.alarm_overvoltage \/ a.alarm_undervoltage
    \/ a.alarm_heattag_alarm \/ a.alarm_heattag_maintenance \/ a.alarm_heattag_replacement

\* C7: has_alarm of a decoded AlarmStatus is true exactly when one of its
\* named flags is true; 0b11 sets voltage loss and current overload only.
C7_HasAlarmSummary ==
    (op = "tag_get_alarm" /\ IsOk /\ result.kind = "return") =>
        LET a == result.value.v
        IN  /\ a.has_alarm <=> AnyNamedFlag(a)
            /\ response.registers = << 3 >> =>
                 /\ a.alarm_voltage_loss /\ a.alarm_current_overload /\ a.has_alarm
                 /\ ~a.alarm_overload_45_percent /\ ~a.alarm_load_current_loss
                 /\ ~a.alarm_overvoltage /\ ~a.alarm_undervoltage
            /\ response.registers = << 0 >> => ~a.has_alarm /\ ~AnyNamedFlag(a)

\* C8: for every word read at the alarm registers tag_get_alarm returns an
\* AlarmStatus and tag_is_alarm_valid a bool; neither raises nor returns None.
C8_AlarmNeverFails ==
    (op \in {"tag_get_alarm", "tag_is_alarm_valid"} /\ IsOk) =>
        /\ result.kind = "return"
        /\ result.value.t = (IF op = "tag_get_alarm" THEN "AlarmStatus" ELSE "bool")

EnumOps == {"tag_usage", "tag_phase_sequence", "tag_position"}

ListedCodes(name) ==
    IF name = "tag_usage" THEN 1..21
    ELSE IF name = "tag_phase_sequence" THEN 1..9
    ELSE 0..3

MembersOf(name) ==
    IF name = "tag_usage" THEN DeviceUsageMembers
    ELSE IF name = "tag_phase_sequence" THEN PhaseSequenceMembers
    ELSE PositionMembers

\* C9: tag_usage, tag_phase_sequence and tag_position return the member whose
\* value is the code read when the code is listed (usage 21 is other), INVALID
\* for the invalid sentinel 0xFFFF, and raise ValueError for any other code.
C9_EnumDecode ==
    (op \in EnumOps /\ IsOk) =>
        LET w == response.registers[1]
            ms == MembersOf(op)
        IN  IF w \in ListedCodes(op)
            THEN /\ result.kind = "return"
                 /\ \E i \in 1..Len(ms) :
                        ms[i].name = result.value.v /\ ms[i].value = PyInt(w)
                 /\ (op = "tag_usage" /\ w = 21) => result.value.v = "other"
                 /\ (op = "tag_position" /\ w = 0) => result.value.v = "not_configured"
            ELSE IF w = 65535
            THEN result.kind = "return" /\ result.value.v = "INVALID"
            ELSE result = Raise("ValueError")

\* usage code 22 is refused
C9_Witness ==
    /\ op = "tag_usage" /\ IsOk
    /\ response.registers = << 22 >>
    /\ result = Raise("ValueError")

\* C10: a facade call that passes its unit check hands exactly one request to
\* the client, and when the client raises or answers with an exception
\* response the call raises.
C10_OneRequestFailureSurfaces ==
    (pc = "ready" /\ op # "__init__" /\ result # Raise("AssertionError")) =>
        /\ nreq = 1
        /\ response.kind \in { f.kind : f \in FailedResponses } =>
             result.kind = "raise"

\* C11: a write the device answers with a Modbus exception response does not
\* return normally: tag_reset_peak_demands raises.
C11_RejectedWriteRaises ==
    (op = "tag_reset_peak_demands" /\ request.kind = "write"
        /\ response.kind = "ExceptionResponse") =>
        result.kind = "raise"

\* bit n of a 16-bit word, taken from the word itself
WordBit(w, n) == (w \div Pow2(n)) % 2 = 1

\* C12: every named flag of a decoded AlarmStatus equals its own bit of the
\* 16-bit alarm word: voltage loss bit 0, current overload bit 1, overload 45
\* percent bit 3, load current loss bit 4, overvoltage bit 5, undervoltage
\* bit 6, heattag alarm bit 8, heattag maintenance bit 10, heattag replacement
\* bit 11.
C12_FlagPerBit ==
    (op = "tag_get_alarm" /\ IsOk /\ result.kind = "return") =>
        LET w == response.registers[1]
            a == result.value.v
        IN  /\ a.alarm_voltage_loss <=> WordBit(w, 0)
            /\ a.alarm_current_overload <=> WordBit(w, 1)
            /\ a.alarm_overload_45_percent <=> WordBit(w, 3)
            /\ a.alarm_load_current_loss <=> WordBit(w, 4)
            /\ a.alarm_overvoltage <=> WordBit(w, 5)
            /\ a.alarm_undervoltage <=> WordBit(w, 6)
            /\ a.alarm_heattag_alarm <=> WordBit(w, 8)
            /\ a.alarm_heattag_maintenance <=> WordBit(w, 10)
            /\ a.alarm_heattag_replacement <=> WordBit(w, 11)

====
